---------------------------- MODULE Spec2Model ----------------------------
(***************************************************************************)
(* A model of the news feed program of src/main.py: the record variants    *)
(* and their formatting, the blank-line delimited file importer, the feed  *)
(* log and the word/letter statistics that are recomputed on every append. *)
(*                                                                         *)
(* Text is modelled as a sequence of characters.  A character is a one     *)
(* character string; the two non-ASCII characters the model uses are       *)
(* written by their code point: "U+00B0" (the degree sign of the weather   *)
(* report) and "U+0131" (LATIN SMALL LETTER DOTLESS I, a letter whose      *)
(* upper case "I" does not lower back to it).  The grave accent, which the  *)
(* parser does not take in a string, is written "U+0060".                  *)
(***************************************************************************)
EXTENDS Integers, Sequences, FiniteSets, TLC

VARIABLES
    now,            \* index into Instants: what datetime.datetime.now() returns
    log,            \* content of news_feed.txt (<<>>: the file does not exist)
    word_csv,       \* word_count.csv: [header, rows, torn]
    letter_csv,     \* letter_count.csv: [header, rows, torn]
    input_exists,   \* whether the file being imported exists
    input_content,  \* its content, as characters
    input_blocks,   \* history: the blocks the user wrote it from
    pc,             \* "idle" | "import" (in import_to_feed's loop) | "parsed" | "crashed"
    records,        \* import_to_feed's local list of parsed records
    pos,            \* how many of them the loop has passed to add_record
    built,          \* history: for each of them, the index of its construction instant
    added,          \* history: every record whose block reached the log
    trace,          \* history: events of the current import_to_feed call
    last,           \* the last operation that returned normally ("update_statistics
                    \* again": update_statistics, right after update_statistics)
    error           \* the exception that ended the program ("none" if none)

vars == <<now, log, word_csv, letter_csv, input_exists, input_content,
          input_blocks, pc, records, pos, built, added, trace, last, error>>

-----------------------------------------------------------------------------
(* Bounds of the model.                                                    *)

\* The menu offers nothing more once this many records are in the log.
MaxRecords == 1
\* The most blocks an import file holds, and the most records the log holds
\* once the file's blocks are added to it.
MaxBlocks == 2

-----------------------------------------------------------------------------
(* Characters.                                                             *)

NL == "\n"
DEGREE == "U+00B0"
DOTLESS_I == "U+0131"
BACKTICK == "U+0060"

\* The printable ASCII characters in code point order, from 32 (space) to 126.
Ascii == <<" ", "!", "\"", "#", "$", "%", "&", "'", "(", ")", "*", "+", ",", "-", ".", "/",
           "0", "1", "2", "3", "4", "5", "6", "7", "8", "9",
           ":", ";", "<", "=", ">", "?", "@",
           "A", "B", "C", "D", "E", "F", "G", "H", "I", "J", "K", "L", "M",
           "N", "O", "P", "Q", "R", "S", "T", "U", "V", "W", "X", "Y", "Z",
           "[", "\\", "]", "^", "_", BACKTICK,
           "a", "b", "c", "d", "e", "f", "g", "h", "i", "j", "k", "l", "m",
           "n", "o", "p", "q", "r", "s", "t", "u", "v", "w", "x", "y", "z",
           "{", "|", "}", "~">>

Range(s) == {s[i] : i \in 1..Len(s)}

Chars == Range(Ascii) \cup {NL, "\t", DEGREE, DOTLESS_I}

\* ord(c): the order Python compares strings by.
CodePoint == [c \in Chars |->
    IF c = "\t" THEN 9
    ELSE IF c = NL THEN 10
    ELSE IF c = DEGREE THEN 176
    ELSE IF c = DOTLESS_I THEN 305
    ELSE 31 + (CHOOSE i \in 1..Len(Ascii) : Ascii[i] = c)]

Upper == <<"A", "B", "C", "D", "E", "F", "G", "H", "I", "J", "K", "L", "M",
           "N", "O", "P", "Q", "R", "S", "T", "U", "V", "W", "X", "Y", "Z">>
Lower == <<"a", "b", "c", "d", "e", "f", "g", "h", "i", "j", "k", "l", "m",
           "n", "o", "p", "q", "r", "s", "t", "u", "v", "w", "x", "y", "z">>
Digits == <<"0", "1", "2", "3", "4", "5", "6", "7", "8", "9">>

\* string.punctuation
Punctuation == {"!", "\"", "#", "$", "%", "&", "'", "(", ")", "*", "+", ",", "-", ".", "/",
                ":", ";", "<", "=", ">", "?", "@", "[", "\\", "]", "^", "_", BACKTICK,
                "{", "|", "}", "~"}

Whitespace == {" ", "\t", NL}
UpperLetters == Range(Upper)
Letters == Range(Upper) \cup Range(Lower) \cup {DOTLESS_I}
DigitChars == Range(Digits)

\* str.isspace, str.isupper, str.isalpha, str.isdigit on one character
IsSpace(c) == c \in Whitespace
IsUpper(c) == c \in UpperLetters
IsAlpha(c) == c \in Letters
IsDigit(c) == c \in DigitChars

\* str.lower and str.upper on one character
ToLower == [c \in Chars |->
    IF c \in UpperLetters THEN Lower[CHOOSE i \in 1..Len(Upper) : Upper[i] = c] ELSE c]
ToUpper == [c \in Chars |->
    IF c \in Range(Lower) THEN Upper[CHOOSE i \in 1..Len(Lower) : Lower[i] = c]
    ELSE IF c = DOTLESS_I THEN "I"
    ELSE c]

DigitValue(c) == (CHOOSE i \in 1..Len(Digits) : Digits[i] = c) - 1

-----------------------------------------------------------------------------
(* Strings.                                                                *)

\* s.lower()
LowerStr(s) == [i \in 1..Len(s) |-> ToLower[s[i]]]

\* s[i:] (1-based, to the end)
From(s, i) == SubSeq(s, i, Len(s))

\* s.strip(chars): drop the leading and trailing characters that are in `drop`
StripSet(s, drop) ==
    LET keep == {i \in 1..Len(s) : s[i] \notin drop}
    IN  IF keep = {} THEN <<>>
        ELSE SubSeq(s, CHOOSE i \in keep : \A j \in keep : i <= j,
                       CHOOSE i \in keep : \A j \in keep : i >= j)

\* s.strip()
Strip(s) == StripSet(s, Whitespace)

\* s.split(sep): the pieces between the leftmost non-overlapping occurrences of sep
RECURSIVE SplitOn(_, _)
SplitOn(s, sep) ==
    LET n == Len(sep)
        hits == {i \in 1..(Len(s) - n + 1) : SubSeq(s, i, i + n - 1) = sep}
    IN  IF hits = {} THEN <<s>>
        ELSE LET i == CHOOSE h \in hits : \A k \in hits : h <= k
             IN  <<SubSeq(s, 1, i - 1)>> \o SplitOn(From(s, i + n), sep)

\* the least element of a non-empty set of numbers
Min(S) == CHOOSE x \in S : \A y \in S : x <= y

\* s.split(): the maximal runs of non-whitespace characters, each from a
\* position that starts a run to the next position that ends one
RECURSIVE Runs(_, _, _)
Runs(s, starts, ends) ==
    IF starts = {} THEN <<>>
    ELSE <<SubSeq(s, Min(starts), Min(ends))>>
             \o Runs(s, starts \ {Min(starts)}, ends \ {Min(ends)})
SplitWhitespace(s) ==
    LET n == Len(s)
        inside == {i \in 1..n : ~IsSpace(s[i])}
    IN  Runs(s, {i \in inside : i = 1 \/ (i - 1) \notin inside},
                {i \in inside : i = n \/ (i + 1) \notin inside})

\* a < b for Python strings: by code point, a proper prefix first
RECURSIVE StrLess(_, _)
StrLess(a, b) ==
    IF b = <<>> THEN FALSE
    ELSE IF a = <<>> THEN TRUE
    ELSE IF a[1] # b[1] THEN CodePoint[a[1]] < CodePoint[b[1]]
    ELSE StrLess(Tail(a), Tail(b))

\* sorted(set of strings): each string goes after the ones less than it
InsertSorted(x, seq) ==
    LET k == Cardinality({i \in 1..Len(seq) : StrLess(seq[i], x)})
    IN  SubSeq(seq, 1, k) \o <<x>> \o SubSeq(seq, k + 1, Len(seq))
RECURSIVE Sorted(_)
Sorted(S) ==
    IF S = {} THEN <<>>
    ELSE LET x == CHOOSE y \in S : TRUE
         IN  InsertSorted(x, Sorted(S \ {x}))

\* the concatenation of a sequence of strings
RECURSIVE Concat(_)
Concat(ss) == IF ss = <<>> THEN <<>> ELSE Head(ss) \o Concat(Tail(ss))

\* str(n) for a natural number, and padded with zeros to `width` digits
RECURSIVE NatStr(_)
NatStr(n) == IF n < 10 THEN <<Digits[n + 1]>> ELSE NatStr(n \div 10) \o <<Digits[(n % 10) + 1]>>
RECURSIVE Padded(_, _)
Padded(n, width) ==
    IF width = 0 THEN <<>> ELSE Padded(n \div 10, width - 1) \o <<Digits[(n % 10) + 1]>>
\* str(n) for an integer
IntStr(n) == IF n < 0 THEN <<"-">> \o NatStr(-n) ELSE NatStr(n)


-----------------------------------------------------------------------------
(* Floating point.  A double's value is m * 2^e with an integer m of at    *)
(* most MantissaBits bits; such an m does not fit a machine integer of the *)
(* model, so it is held as a sequence of limbs, the least significant      *)
(* first, each in 0..LimbBase-1.                                           *)

MantissaBits == 53
LimbBits == 15
LimbBase == 32768

\* 2^n
RECURSIVE Pow2(_)
Pow2(n) == IF n = 0 THEN 1 ELSE 2 * Pow2(n - 1)

\* a without its most significant zero limbs
RECURSIVE Trim(_)
Trim(a) ==
    IF a = <<>> \/ a[Len(a)] # 0 THEN a ELSE Trim(SubSeq(a, 1, Len(a) - 1))

\* a * s + carry, for 0 <= s, carry < LimbBase
RECURSIVE MulSmall(_, _, _)
MulSmall(a, s, carry) ==
    IF a = <<>> THEN (IF carry = 0 THEN <<>> ELSE <<carry>>)
    ELSE LET v == a[1] * s + carry
         IN  <<v % LimbBase>> \o MulSmall(Tail(a), s, v \div LimbBase)

\* a + 1
AddOne(a) == MulSmall(a, 1, 1)

\* the quotient and the remainder of a by d, for 0 < d < LimbBase
RECURSIVE DivSmall(_, _)
DivSmall(a, d) ==
    IF a = <<>> THEN [q |-> <<>>, r |-> 0]
    ELSE LET high == DivSmall(Tail(a), d)
             v == high.r * LimbBase + a[1]
         IN  [q |-> <<v \div d>> \o high.q, r |-> v % d]

\* a * 2^n
ShiftLeft(a, n) ==
    [i \in 1..(n \div LimbBits) |-> 0] \o MulSmall(a, Pow2(n % LimbBits), 0)

\* the bits of a without the n least significant ones, and whether those
\* were all zero
ShiftRight(a, n) ==
    LET w == n \div LimbBits
        division == DivSmall(SubSeq(a, w + 1, Len(a)), Pow2(n % LimbBits))
    IN  [q |-> division.q,
         exact |-> division.r = 0 /\ \A i \in 1..w : i > Len(a) \/ a[i] = 0]

IsOdd(a) == a # <<>> /\ a[1] % 2 = 1

\* a / 2^n to the nearest integer, an exact half to the even one (n >= 1)
ShiftRightHalfEven(a, n) ==
    LET above == ShiftRight(a, n - 1)
        floor == DivSmall(above.q, 2).q
    IN  IF IsOdd(above.q) /\ (~above.exact \/ IsOdd(floor)) THEN AddOne(floor) ELSE floor

\* the number of bits of a: 0 for 0
RECURSIVE BitsOfLimb(_)
BitsOfLimb(n) == IF n = 0 THEN 0 ELSE 1 + BitsOfLimb(n \div 2)
BitLength(a) ==
    LET t == Trim(a)
    IN  IF t = <<>> THEN 0 ELSE (Len(t) - 1) * LimbBits + BitsOfLimb(t[Len(t)])

\* for 0 < a <= b: the n with 1 <= a * 2^n / b < 2
RECURSIVE HalvingsBelow(_, _)
HalvingsBelow(a, b) == IF a >= b THEN 0 ELSE 1 + HalvingsBelow(2 * a, b)

\* the machine integer that a is (a < 2^31)
RECURSIVE ToInt(_)
ToInt(a) == IF a = <<>> THEN 0 ELSE a[1] + LimbBase * ToInt(Tail(a))

-----------------------------------------------------------------------------
(* Dates and the clock.                                                    *)

\* The values datetime.datetime.now() takes, in the order the clock passes them.
Instants == <<
    [year |-> 2025, month |-> 3, day |-> 1, hour |-> 23, minute |-> 59, second |-> 30],
    [year |-> 2025, month |-> 3, day |-> 2, hour |-> 10, minute |-> 30, second |-> 0] >>

SecondsPerDay == 86400

IsLeap(y) == y % 4 = 0 /\ (y % 100 # 0 \/ y % 400 = 0)
DaysInMonth(y, m) ==
    IF m = 2 THEN (IF IsLeap(y) THEN 29 ELSE 28)
    ELSE IF m \in {4, 6, 9, 11} THEN 30 ELSE 31
DaysBeforeYear(y) == (y - 1) * 365 + ((y - 1) \div 4) - ((y - 1) \div 100) + ((y - 1) \div 400)
RECURSIVE DaysBeforeMonth(_, _)
DaysBeforeMonth(y, m) == IF m = 1 THEN 0 ELSE DaysBeforeMonth(y, m - 1) + DaysInMonth(y, m - 1)
\* datetime.toordinal(): the day number of a date
ToOrdinal(t) == DaysBeforeYear(t.year) + DaysBeforeMonth(t.year, t.month) + t.day
\* the seconds of a datetime since its midnight
SecondOfDay(t) == t.hour * 3600 + t.minute * 60 + t.second

\* (mutant) the days between the two calendar dates, the time of day dropped
WholeCalendarDays(days, seconds) == days

\* timedelta(days, seconds).days: the seconds are brought into 0..86399 and
\* the whole days they held are carried, so the days round toward minus infinity
TimedeltaDays(days, seconds) == days + (seconds \div SecondsPerDay)

\* (a - b).days for two datetimes
DaysBetween(a, b) ==
    TimedeltaDays(ToOrdinal(a) - ToOrdinal(b), SecondOfDay(a) - SecondOfDay(b))

\* the number a string of digits writes
RECURSIVE NumberOf(_)
NumberOf(s) ==
    IF s = <<>> THEN 0 ELSE 10 * NumberOf(SubSeq(s, 1, Len(s) - 1)) + DigitValue(s[Len(s)])

\* strptime's patterns for %Y, %m and %d:
\* \d\d\d\d, 1[0-2]|0[1-9]|[1-9] and 3[01]|[12]\d|0[1-9]|[1-9]| [1-9]
MatchesYear(s) == Len(s) = 4 /\ \A i \in 1..4 : IsDigit(s[i])
MatchesMonth(s) ==
    \/ Len(s) = 2 /\ s[1] = "1" /\ s[2] \in {"0", "1", "2"}
    \/ Len(s) = 2 /\ s[1] = "0" /\ IsDigit(s[2]) /\ s[2] # "0"
    \/ Len(s) = 1 /\ IsDigit(s[1]) /\ s[1] # "0"
MatchesDay(s) ==
    \/ Len(s) = 2 /\ s[1] = "3" /\ s[2] \in {"0", "1"}
    \/ Len(s) = 2 /\ s[1] \in {"1", "2"} /\ IsDigit(s[2])
    \/ Len(s) = 2 /\ s[1] \in {"0", " "} /\ IsDigit(s[2]) /\ s[2] # "0"
    \/ Len(s) = 1 /\ IsDigit(s[1]) /\ s[1] # "0"

NoDate == [ok |-> FALSE, year |-> 0, month |-> 0, day |-> 0,
           hour |-> 0, minute |-> 0, second |-> 0]

\* datetime.datetime.strptime(s, "%Y-%m-%d"): ok is FALSE where it raises ValueError
Strptime(s) ==
    LET parts == SplitOn(s, <<"-">>)
    IN  IF Len(parts) # 3 THEN NoDate
        ELSE IF ~(MatchesYear(parts[1]) /\ MatchesMonth(parts[2]) /\ MatchesDay(parts[3]))
        THEN NoDate
        ELSE LET y == NumberOf(parts[1])
                 m == NumberOf(parts[2])
                 d == NumberOf(StripSet(parts[3], {" "}))
             IN  IF y < 1 \/ d > DaysInMonth(y, m) THEN NoDate
                 ELSE [ok |-> TRUE, year |-> y, month |-> m, day |-> d,
                       hour |-> 0, minute |-> 0, second |-> 0]

\* t.strftime("%Y-%m-%d") and t.strftime("%Y-%m-%d %H:%M").  The C library's
\* %Y writes the year as it is, without leading zeros: 999, not 0999.
StrftimeDate(t) == NatStr(t.year) \o <<"-">> \o Padded(t.month, 2) \o <<"-">> \o Padded(t.day, 2)
StrftimeMinute(t) ==
    StrftimeDate(t) \o <<" ">> \o Padded(t.hour, 2) \o <<":">> \o Padded(t.minute, 2)

-----------------------------------------------------------------------------
(* The record variants.                                                    *)

\* News.__init__
News(text, city, clock) ==
    [kind |-> "News", text |-> text, city |-> city, date |-> StrftimeMinute(clock)]

\* PrivateAd.__init__ raises ValueError
PrivateAdRaises(text, expiration_date_str) == ~Strptime(expiration_date_str).ok

\* PrivateAd.__init__, when it does not raise
PrivateAd(text, expiration_date_str, clock) ==
    LET expiration_date == Strptime(expiration_date_str)
    IN  [kind |-> "PrivateAd", text |-> text, expiration_date |-> expiration_date,
         days_left |-> DaysBetween(expiration_date, clock)]

\* WeatherReport.__init__
WeatherReport(city, temperature, clock) ==
    [kind |-> "WeatherReport", city |-> city, temperature |-> temperature,
     date |-> StrftimeMinute(clock)]

NewsBanner == <<"N", "e", "w", "s", " ", "-", "-", "-", "-", "-", "-", "-", "-", "-", "-",
                "-", "-", "-", "-", "-", "-", "-", "-", "-", "-", "-", "-", "-", "-", "-", "\n">>
PrivateAdBanner == <<"P", "r", "i", "v", "a", "t", "e", " ", "A", "d", " ", "-", "-", "-",
                     "-", "-", "-", "-", "-", "-", "-", "-", "-", "-", "-", "-", "-", "-",
                     "-", "\n">>
WeatherBanner == <<"W", "e", "a", "t", "h", "e", "r", " ", "R", "e", "p", "o", "r", "t", " ",
                   "-", "-", "-", "-", "-", "-", "-", "-", "-", "-", "-", "-", "-", "-", "\n">>
ActualUntil == <<"A", "c", "t", "u", "a", "l", " ", "u", "n", "t", "i", "l", ":", " ">>
DaysLeftSuffix == <<" ", "d", "a", "y", "s", " ", "l", "e", "f", "t", "\n">>
CityLabel == <<"C", "i", "t", "y", ":", " ">>
TemperatureLabel == <<"\n", "T", "e", "m", "p", "e", "r", "a", "t", "u", "r", "e", ":", " ">>
ReportedAtLabel == <<DEGREE, "C", "\n", "R", "e", "p", "o", "r", "t", "e", "d", " ", "a", "t",
                     ":", " ">>

\* News.format, PrivateAd.format, WeatherReport.format
FormatNews(r) == NewsBanner \o r.text \o <<NL>> \o r.city \o <<",", " ">> \o r.date \o <<NL>>
FormatPrivateAd(r) ==
    PrivateAdBanner \o r.text \o <<NL>> \o ActualUntil \o StrftimeDate(r.expiration_date)
        \o <<",", " ">> \o IntStr(r.days_left) \o DaysLeftSuffix
FormatWeatherReport(r) ==
    WeatherBanner \o CityLabel \o r.city \o TemperatureLabel \o r.temperature
        \o ReportedAtLabel \o r.date \o <<NL>>

\* record.format(), dispatched on the record's class
Format(r) ==
    CASE r.kind = "News" -> FormatNews(r)
      [] r.kind = "PrivateAd" -> FormatPrivateAd(r)
      [] r.kind = "WeatherReport" -> FormatWeatherReport(r)

-----------------------------------------------------------------------------
(* The statistics engine: NewsFeed.update_statistics.                      *)

\* how many entries of a sequence satisfy a test that picks the value v
Occurrences(seq, v) == Cardinality({i \in 1..Len(seq) : seq[i] = v})

\* words: every whitespace separated token, stripped of punctuation, lowered
Words(text) ==
    LET tokens == SplitWhitespace(text)
    IN  [i \in 1..Len(tokens) |-> LowerStr(StripSet(tokens[i], Punctuation))]

\* (mutant) the rows without filter(None, words): the empty word is counted
WordRowsKeepingEmpty(text) ==
    LET words == Words(text)
        keys == Sorted(Range(words))
    IN  [k \in 1..Len(keys) |-> [word |-> keys[k], count |-> Occurrences(words, keys[k])]]

\* the rows of word_count.csv: sorted(Counter(filter(None, words)).items())
WordRows(text) ==
    LET words == Words(text)
        keys == Sorted({w \in Range(words) : w # <<>>})
    IN  [k \in 1..Len(keys) |-> [word |-> keys[k], count |-> Occurrences(words, keys[k])]]

\* round((count / total) * 100, 2), in hundredths, for 1 <= count <= total
\* < LimbBase, computed in binary floating point as Python computes it:
\*   count / total  is the double nearest to the quotient, m * 2^-k with a
\*                  MantissaBits-bit m;
\*   ... * 100      is the double nearest to 100 * m * 2^-k, z * 2^(j-k);
\*   round(..., 2)  is the hundredth nearest to that double's exact value.
\* Every rounding takes an exact half to the even neighbour.  The result is
\* not always the nearest hundredth of the exact ratio: 23 of 160 is 14.375,
\* the product computed lies just under it, and the row shows 14.37.
RoundedPercentage(count, total) ==
    LET k == (MantissaBits - 1) + HalvingsBelow(count, total)
        division == DivSmall(ShiftLeft(<<count>>, k), total)
        up == \/ 2 * division.r > total
              \/ 2 * division.r = total /\ IsOdd(division.q)
        m == IF up THEN AddOne(division.q) ELSE division.q
        product == MulSmall(m, 100, 0)
        j == BitLength(product) - MantissaBits
        z == ShiftRightHalfEven(product, j)
    IN  ToInt(ShiftRightHalfEven(MulSmall(z, 100, 0), k - j))

\* the rows of letter_count.csv; percentage is held in hundredths of a percent
LetterRows(text) ==
    LET letters == SelectSeq(text, IsAlpha)
        total_letters == Len(letters)
        lowered == [i \in 1..Len(letters) |-> ToLower[letters[i]]]
        IsUpperLetter(ch) == IsAlpha(ch) /\ IsUpper(ch)
        uppercase == SelectSeq(text, IsUpperLetter)
        keys == Sorted({<<ch>> : ch \in Range(lowered)})
    IN  [k \in 1..Len(keys) |->
            LET letter == keys[k][1]
                count_all == Occurrences(lowered, letter)
            IN  [letter |-> letter,
                 count_all |-> count_all,
                 count_uppercase |-> Occurrences(uppercase, ToUpper[letter]),
                 percentage |-> IF total_letters # 0
                                THEN RoundedPercentage(count_all, total_letters) ELSE 0]]

WordHeader == <<"word", "count">>
LetterHeader == <<"letter", "count_all", "count_uppercase", "percentage">>

\* A statistics file is held as its header row and its data rows; torn says
\* that the file ends inside the row after these (a write that failed part
\* way).  A file that was never written holds nothing.
NoCsv == [header |-> <<>>, rows |-> <<>>, torn |-> FALSE]

\* (mutant) the file opened with "a": the rows pile up after the old ones
AppendCsv(old, header, rows) == [header |-> header, rows |-> old.rows \o rows, torn |-> FALSE]

\* open(name, "w") and the writer's rows: the new content replaces the old
WriteCsv(old, header, rows) == [header |-> header, rows |-> rows, torn |-> FALSE]

\* open(name, "w") and a write that raises part way: the old content is gone
\* and the file holds the first `cut` rows of the new one, the header counted
\* as the first, and after them a part of the next row if torn
CutCsv(old, header, rows, cut, torn) ==
    IF cut = 0 THEN [header |-> <<>>, rows |-> <<>>, torn |-> torn]
    ELSE [header |-> header, rows |-> SubSeq(rows, 1, cut - 1), torn |-> torn]

\* (mutant) the log opened with "w": the block replaces the content
OverwriteLog(content, block) == block \o <<NL>>

\* with open(self.filename, "a") as f: f.write(record.format() + "\n")
AppendToLog(content, block) == content \o block \o <<NL>>

\* the characters that are not ASCII: UTF-8 writes each of them as two bytes,
\* and an ASCII locale's encoder raises UnicodeEncodeError on them
NonAscii == {DEGREE, DOTLESS_I}

\* the first of the two bytes of a character that is not ASCII
LeadByte == [c \in NonAscii |-> IF c = DEGREE THEN "0xC2" ELSE "0xC4"]

\* len(s.encode("utf-8"))
Utf8Len(s) == Len(s) + Cardinality({i \in 1..Len(s) : s[i] \in NonAscii})

\* what the first n bytes of s.encode("utf-8") hold: the characters that fit
\* and, when the n-th byte is inside a character, that character's first byte
Utf8Cut(s, n) ==
    LET fit == CHOOSE k \in 0..Len(s) :
                   /\ Utf8Len(SubSeq(s, 1, k)) <= n
                   /\ k < Len(s) => Utf8Len(SubSeq(s, 1, k + 1)) > n
    IN  SubSeq(s, 1, fit) \o
            (IF fit < Len(s) /\ Utf8Len(SubSeq(s, 1, fit)) < n
             THEN <<LeadByte[s[fit + 1]]>> ELSE <<>>)

\* the same write raising part way: the first `cut` bytes reached the file
CutAppendToLog(content, block, cut) == content \o Utf8Cut(block \o <<NL>>, cut)

-----------------------------------------------------------------------------
(* The file importer: FileRecordImporter.parse_records.                    *)

TagNews == <<"N", "e", "w", "s">>
TagPrivateAd == <<"P", "r", "i", "v", "a", "t", "e", "A", "d">>
TagWeatherReport == <<"W", "e", "a", "t", "h", "e", "r", "R", "e", "p", "o", "r", "t">>

\* lines = [line.strip() for line in raw.split('\n') if line.strip()]
BlockLines(raw) ==
    LET stripped == [i \in 1..Len(SplitOn(raw, <<NL>>)) |-> Strip(SplitOn(raw, <<NL>>)[i])]
        NotEmpty(line) == line # <<>>
    IN  SelectSeq(stripped, NotEmpty)

\* One pass of parse_records' loop: what it appends to `records` for one raw
\* block, nothing or one record.  clocks are the values datetime.now() is
\* going to return, call after call: a constructor that gets as far as its
\* call of now() reads the first of them.  An exception of a constructor is
\* caught and the block is dropped; PrivateAd raises before it reads the clock.
ParseBlock(raw, clocks) ==
    LET lines == BlockLines(raw)
    IN  IF lines = <<>> THEN <<>>
        ELSE IF lines[1] = TagNews /\ Len(lines) >= 3
             THEN <<News(lines[2], lines[3], Head(clocks))>>
        ELSE IF lines[1] = TagPrivateAd /\ Len(lines) >= 3
             THEN IF PrivateAdRaises(lines[2], lines[3]) THEN <<>>
                  ELSE <<PrivateAd(lines[2], lines[3], Head(clocks))>>
        ELSE IF lines[1] = TagWeatherReport /\ Len(lines) >= 3
             THEN <<WeatherReport(lines[2], lines[3], Head(clocks))>>
        ELSE <<>>

\* (mutant) the loop left at the first block that gives no record
RECURSIVE ParseUntilMalformed(_, _)
ParseUntilMalformed(raw_records, clocks) ==
    IF raw_records = <<>> \/ ParseBlock(Head(raw_records), clocks) = <<>> THEN <<>>
    ELSE ParseBlock(Head(raw_records), clocks)
            \o ParseUntilMalformed(Tail(raw_records), Tail(clocks))

\* parse_records' loop over raw_records: every record is built when its block
\* is reached, so each one reads the clock after the one before it
RECURSIVE ParseAll(_, _)
ParseAll(raw_records, clocks) ==
    IF raw_records = <<>> THEN <<>>
    ELSE LET made == ParseBlock(Head(raw_records), clocks)
         IN  made \o ParseAll(Tail(raw_records),
                              IF made = <<>> THEN clocks ELSE Tail(clocks))

\* parse_records on a file's content
ParseRecords(content, clocks) == ParseAll(SplitOn(Strip(content), <<NL, NL>>), clocks)

-----------------------------------------------------------------------------
(* The import files the user writes: blocks of lines, the first line the   *)
(* type tag, in the format of FileRecordImporter's docstring.              *)

Hello == <<"H", "e", "l", "l", "o">>
Paris == <<"P", "a", "r", "i", "s">>
Sale == <<"S", "a", "l", "e">>
Oslo == <<"O", "s", "l", "o">>
Bogus == <<"B", "o", "g", "u", "s">>
Extra == <<"e", "x", "t", "r", "a">>
MinusThree == <<"-", "3">>
HiAll == <<"H", "i", ",", " ", "a", "l", "l", "!">>
DateFuture == <<"2", "0", "2", "5", "-", "0", "3", "-", "0", "2">>
DatePast == <<"2", "0", "2", "5", "-", "0", "2", "-", "2", "8">>
DateShort == <<"2", "0", "2", "5", "-", "3", "-", "2">>
DateNoSuchDay == <<"2", "0", "2", "5", "-", "0", "2", "-", "3", "0">>
DateDotted == <<"0", "2", ".", "0", "3", ".", "2", "0", "2", "5">>
DateLeapDay == <<"2", "0", "2", "4", "-", "0", "2", "-", "2", "9">>
DateNextYear == <<"2", "0", "2", "6", "-", "0", "1", "-", "0", "1">>
DateYear999 == <<"0", "9", "9", "9", "-", "0", "1", "-", "0", "1">>

BlockSamples == {
    <<TagNews, Hello, Paris>>,
    <<TagNews, Hello>>,
    <<TagPrivateAd, Sale, DateFuture>>,
    <<TagPrivateAd, Sale, DateShort>>,
    <<TagPrivateAd, Sale, DateNoSuchDay>>,
    <<Bogus, Hello, Paris>>,
    <<TagWeatherReport, Oslo, MinusThree, Extra>> }

\* the blocks of the files the menu imports
MenuBlockSamples == {
    <<TagNews, Hello, Paris>>,
    <<TagPrivateAd, Sale, DateFuture>>,
    <<Bogus, Hello, Paris>> }

\* the files of at most MaxBlocks blocks
FilesOf(samples) == UNION {[1..n -> samples] : n \in 0..MaxBlocks}

\* "plain": lines as they are, blocks one blank line apart, no final line break;
\* "loose": lines indented and followed by a tab, blocks two blank lines apart,
\* a final line break
Styles == {"plain", "loose"}

RECURSIVE Join(_, _)
Join(ss, sep) ==
    IF ss = <<>> THEN <<>>
    ELSE IF Len(ss) = 1 THEN ss[1]
    ELSE ss[1] \o sep \o Join(Tail(ss), sep)

RenderBlock(block, style) ==
    IF style = "plain" THEN Join(block, <<NL>>)
    ELSE Join([i \in 1..Len(block) |-> <<" ">> \o block[i] \o <<"\t">>], <<NL>>)

RenderFile(blocks, style) ==
    LET rendered == [i \in 1..Len(blocks) |-> RenderBlock(blocks[i], style)]
    IN  IF style = "plain" THEN Join(rendered, <<NL, NL>>)
        ELSE Join(rendered, <<NL, NL, NL>>) \o <<NL>>

\* what the user types at the prompts of run()
NewsInputs == {<<HiAll, Paris>>, <<<<DOTLESS_I>>, <<"I", "I">>>>}
PrivateAdInputs == {<<Sale, DateFuture>>, <<Sale, DatePast>>, <<Sale, DateLeapDay>>,
                    <<Sale, DateNextYear>>, <<Sale, DateYear999>>, <<Sale, DateDotted>>}
WeatherInputs == {<<Oslo, MinusThree>>}

-----------------------------------------------------------------------------
(* The state machine.                                                      *)

Init ==
    /\ now = 1
    /\ log = <<>>
    /\ word_csv = NoCsv
    /\ letter_csv = NoCsv
    /\ input_exists = FALSE
    /\ input_content = <<>>
    /\ input_blocks = <<>>
    /\ pc = "idle"
    /\ records = <<>>
    /\ pos = 0
    /\ built = <<>>
    /\ added = <<>>
    /\ trace = <<>>
    /\ last = "none"
    /\ error = "none"

\* How a run of add_record or update_statistics goes: op names the file
\* operation that raises ("ok": none does), and for a write that raises part
\* way, cut and torn say how much of it reached the file.
Io(op, cut, torn) == [op |-> op, cut |-> cut, torn |-> torn]
Ok == Io("ok", 0, FALSE)

\* The ways update_statistics can fail on a log whose tables have the rows
\* word_rows and letter_rows: the open of the log ("read"), the open of a
\* statistics file ("word_csv", "letter_csv"), which leaves the file as it
\* was, or a write into one ("word_rows", "letter_rows"), which leaves a part
\* of the new content in the emptied file.
UpdateStatisticsFailures(word_rows, letter_rows) ==
    {Io(op, 0, FALSE) : op \in {"read", "word_csv", "letter_csv"}}
        \cup {Io("word_rows", cut, torn) : cut \in 0..Len(word_rows), torn \in BOOLEAN}
        \cup {Io("letter_rows", cut, torn) : cut \in 0..Len(letter_rows), torn \in BOOLEAN}

\* The ways add_record(record) can fail before update_statistics: the open of
\* the log ("append"), the encoding of the block ("encode", not an OSError),
\* or the write of the block ("write", which leaves the first bytes of it in
\* the log).
AppendFailures(record) ==
    {Io("append", 0, FALSE)}
        \cup {Io("encode", 0, FALSE) : c \in Range(Format(record)) \cap NonAscii}
        \cup {Io("write", cut, FALSE) : cut \in 0..(Utf8Len(Format(record) \o <<NL>>) - 1)}

\* the exception a failure raises
ErrorOf(io) ==
    IF io.op = "ok" THEN "none"
    ELSE IF io.op = "encode" THEN "UnicodeEncodeError"
    ELSE "OSError"

\* (mutant) the tables of a run without failure computed from the text past
\* the old log only
UpdateStatisticsOfAppended(text) ==
    LET word_rows == WordRows(text)
        letter_rows == LetterRows(text)
    IN  {[io |-> io,
          word_csv |->
              IF io.op \in {"read", "word_csv"} THEN word_csv
              ELSE IF io.op = "word_rows"
              THEN CutCsv(word_csv, WordHeader, word_rows, io.cut, io.torn)
              ELSE IF io.op = "ok"
              THEN WriteCsv(word_csv, WordHeader, WordRows(From(text, Len(log) + 1)))
              ELSE WriteCsv(word_csv, WordHeader, word_rows),
          letter_csv |->
              IF io.op \in {"read", "word_csv", "word_rows", "letter_csv"} THEN letter_csv
              ELSE IF io.op = "letter_rows"
              THEN CutCsv(letter_csv, LetterHeader, letter_rows, io.cut, io.torn)
              ELSE WriteCsv(letter_csv, LetterHeader, LetterRows(From(text, Len(log) + 1)))] :
            io \in {Ok} \cup UpdateStatisticsFailures(word_rows, letter_rows)}

\* update_statistics on the log content `text`: every way it can go (io) with
\* the statistics files it leaves.  The word count file is written before the
\* letter count file is opened.
UpdateStatistics(text) ==
    LET word_rows == WordRows(text)
        letter_rows == LetterRows(text)
    IN  {[io |-> io,
          word_csv |->
              IF io.op \in {"read", "word_csv"} THEN word_csv
              ELSE IF io.op = "word_rows"
              THEN CutCsv(word_csv, WordHeader, word_rows, io.cut, io.torn)
              ELSE WriteCsv(word_csv, WordHeader, word_rows),
          letter_csv |->
              IF io.op \in {"read", "word_csv", "word_rows", "letter_csv"} THEN letter_csv
              ELSE IF io.op = "letter_rows"
              THEN CutCsv(letter_csv, LetterHeader, letter_rows, io.cut, io.torn)
              ELSE WriteCsv(letter_csv, LetterHeader, letter_rows)] :
            io \in {Ok} \cup UpdateStatisticsFailures(word_rows, letter_rows)}

\* (mutant) an add_record that takes its block back out of the log when the
\* statistics fail
AddRecordUndoneOnFailure(record, clock) ==
    {[io |-> io,
      log |-> IF io.op = "write" THEN CutAppendToLog(log, Format(record), io.cut) ELSE log,
      word_csv |-> word_csv,
      letter_csv |-> letter_csv,
      added |-> added] : io \in AppendFailures(record)}
        \cup {[io |-> stats.io,
               log |-> IF stats.io = Ok THEN AppendToLog(log, Format(record)) ELSE log,
               word_csv |-> stats.word_csv,
               letter_csv |-> stats.letter_csv,
               added |-> Append(added, [record |-> record, built |-> clock])] :
                 stats \in UpdateStatistics(AppendToLog(log, Format(record)))}

\* add_record(record): the append, then update_statistics on the whole log;
\* every way it can go (io) with the log and the statistics files it leaves.
\* An exception is not caught here or by any caller: it ends the program.
AddRecord(record, clock) ==
    {[io |-> io,
      log |-> IF io.op = "write" THEN CutAppendToLog(log, Format(record), io.cut) ELSE log,
      word_csv |-> word_csv,
      letter_csv |-> letter_csv,
      added |-> added] : io \in AppendFailures(record)}
        \cup {[io |-> stats.io,
               log |-> AppendToLog(log, Format(record)),
               word_csv |-> stats.word_csv,
               letter_csv |-> stats.letter_csv,
               added |-> Append(added, [record |-> record, built |-> clock])] :
                 stats \in UpdateStatistics(AppendToLog(log, Format(record)))}

\* the files and the error an operation leaves
Leaves(out) ==
    /\ log' = out.log
    /\ word_csv' = out.word_csv
    /\ letter_csv' = out.letter_csv
    /\ added' = out.added
    /\ error' = ErrorOf(out.io)

\* import_to_feed's locals and the histories of the last import are gone
\* once the menu runs another operation
ForgetImport ==
    /\ input_content' = <<>>
    /\ input_blocks' = <<>>
    /\ records' = <<>>
    /\ pos' = 0
    /\ built' = <<>>
    /\ trace' = <<>>

\* time passes
Tick ==
    /\ pc # "crashed"
    /\ now < Len(Instants)
    /\ now' = now + 1
    /\ UNCHANGED <<log, word_csv, letter_csv, input_exists, input_content, input_blocks,
                   pc, records, pos, built, added, trace, last, error>>

\* run(), choices 1 to 3: a record is built from the prompts and added
RunAdd(record) ==
    /\ \E out \in AddRecord(record, now) :
          /\ Leaves(out)
          /\ pc' = IF out.io = Ok THEN "idle" ELSE "crashed"
          /\ last' = IF out.io = Ok THEN "add_record" ELSE last
    /\ ForgetImport
    /\ UNCHANGED <<now, input_exists>>

RunNews ==
    /\ pc = "idle"
    /\ Len(added) < MaxRecords
    /\ \E in \in NewsInputs : RunAdd(News(in[1], in[2], Instants[now]))

RunPrivateAd ==
    /\ pc = "idle"
    /\ Len(added) < MaxRecords
    /\ \E in \in PrivateAdInputs :
          IF PrivateAdRaises(in[1], in[2])
          THEN /\ pc' = "crashed"
               /\ error' = "ValueError"
               /\ ForgetImport
               /\ UNCHANGED <<now, log, word_csv, letter_csv, input_exists, added, last>>
          ELSE RunAdd(PrivateAd(in[1], in[2], Instants[now]))

RunWeatherReport ==
    /\ pc = "idle"
    /\ Len(added) < MaxRecords
    /\ \E in \in WeatherInputs : RunAdd(WeatherReport(in[1], in[2], Instants[now]))

\* the runs of n readings of the clock from the instant `from` on: the clock
\* does not go back
ClockRuns(from, n) ==
    {run \in [1..n -> from..Len(Instants)] : \A i \in 1..(n - 1) : run[i] <= run[i + 1]}

\* import_to_feed up to its loop, on a file the user wrote from `blocks`:
\* parse_records reads the file, or its open raises.  Time may pass between
\* one block and the next; the clock is left at the last reading made.
ParseFile(blocks, style, after) ==
    /\ pc = "idle"
    /\ input_exists' = TRUE
    /\ input_blocks' = blocks
    /\ input_content' = RenderFile(blocks, style)
    /\ pos' = 0
    /\ trace' = <<>>
    /\ \E io \in {"ok", "open"} :
          IF io = "open"
          THEN /\ records' = <<>>
               /\ built' = <<>>
               /\ now' = now
               /\ pc' = "crashed"
               /\ error' = "OSError"
               /\ last' = last
          ELSE \E run \in ClockRuns(now, Len(blocks)) :
               /\ records' = ParseRecords(input_content',
                                          [i \in 1..Len(run) |-> Instants[run[i]]])
               /\ built' = SubSeq(run, 1, Len(records'))
               /\ now' = IF records' = <<>> THEN now ELSE run[Len(records')]
               /\ pc' = after
               /\ error' = "none"
               /\ last' = "parse_records"
    /\ UNCHANGED <<log, word_csv, letter_csv, added>>

\* run(), choice 4, with the path of an existing file
RunImport ==
    /\ Len(added) < MaxRecords
    /\ \E blocks \in FilesOf(MenuBlockSamples) :
          /\ Len(added) + Len(blocks) <= MaxBlocks
          /\ ParseFile(blocks, "plain", "import")

\* the events of one add_record of the import: the append of the i-th record
\* and the refresh of the statistics after it, as far as each was completed
ImportEvents(i, io) ==
    IF io.op \in {"append", "encode", "write"} THEN <<>>
    ELSE IF io = Ok THEN <<[op |-> "append", index |-> i], [op |-> "refresh", index |-> i]>>
    ELSE <<[op |-> "append", index |-> i]>>

\* one pass of import_to_feed's loop: news_feed.add_record(record)
ImportStep ==
    /\ pc = "import"
    /\ pos < Len(records)
    /\ \E out \in AddRecord(records[pos + 1], built[pos + 1]) :
          /\ Leaves(out)
          /\ trace' = trace \o ImportEvents(pos + 1, out.io)
          /\ pos' = IF out.io = Ok THEN pos + 1 ELSE pos
          /\ pc' = IF out.io = Ok THEN "import" ELSE "crashed"
          /\ last' = IF out.io = Ok THEN "add_record" ELSE last
    /\ UNCHANGED <<now, input_exists, input_content, input_blocks, records, built>>

\* (mutant) os.remove inside the loop: the file goes after any record
RemoveBeforeLoopEnds ==
    /\ pc = "import"
    /\ input_exists' = FALSE
    /\ trace' = Append(trace, [op |-> "remove", index |-> 0])
    /\ pc' = "idle"
    /\ last' = "import_to_feed"
    /\ error' = "none"
    /\ UNCHANGED <<now, log, word_csv, letter_csv, input_content, input_blocks,
                   records, pos, built, added>>

\* (mutant) os.remove guarded by `if records:`: a file that gave no record stays
RemoveUnlessNothingParsed ==
    /\ pc = "import"
    /\ pos = Len(records)
    /\ input_exists' = (records = <<>>)
    /\ trace' = Append(trace, [op |-> "remove", index |-> 0])
    /\ pc' = "idle"
    /\ last' = "import_to_feed"
    /\ error' = "none"
    /\ UNCHANGED <<now, log, word_csv, letter_csv, input_content, input_blocks,
                   records, pos, built, added>>

\* after the loop: os.remove(self.filepath), which may raise
ImportRemove ==
    /\ pc = "import"
    /\ pos = Len(records)
    /\ \E io \in {"ok", "remove"} :
          IF io = "remove"
          THEN /\ pc' = "crashed"
               /\ error' = "OSError"
               /\ UNCHANGED <<input_exists, trace, last>>
          ELSE /\ input_exists' = FALSE
               /\ trace' = Append(trace, [op |-> "remove", index |-> 0])
               /\ pc' = "idle"
               /\ last' = "import_to_feed"
               /\ error' = "none"
    /\ UNCHANGED <<now, log, word_csv, letter_csv, input_content, input_blocks,
                   records, pos, built, added>>

\* update_statistics called again on the log as it is (a missing log file
\* makes its open raise)
RerunStatistics ==
    /\ pc = "idle"
    /\ \E out \in {stats \in UpdateStatistics(log) : log = <<>> => stats.io.op = "read"} :
          /\ word_csv' = out.word_csv
          /\ letter_csv' = out.letter_csv
          /\ error' = ErrorOf(out.io)
          /\ pc' = IF out.io = Ok THEN "idle" ELSE "crashed"
          /\ last' = IF out.io # Ok THEN last
                     ELSE IF last \in {"update_statistics", "update_statistics again"}
                     THEN "update_statistics again"
                     ELSE "update_statistics"
    /\ ForgetImport
    /\ UNCHANGED <<now, log, input_exists, added>>

Next ==
    \/ Tick
    \/ RunNews
    \/ RunPrivateAd
    \/ RunWeatherReport
    \/ RunImport
    \/ ImportStep
    \/ ImportRemove
    \/ RerunStatistics

Spec == Init /\ [][Next]_vars

\* parse_records alone, on every file of the samples in both styles
ParseOnly ==
    \E blocks \in FilesOf(BlockSamples), style \in Styles : ParseFile(blocks, style, "parsed")

NextParse == Tick \/ ParseOnly

SpecParse == Init /\ [][NextParse]_vars

-----------------------------------------------------------------------------
(* Properties.                                                             *)

\* a is a prefix of b
IsPrefix(a, b) == Len(a) <= Len(b) /\ SubSeq(b, 1, Len(a)) = a

\* the log that holds the blocks of the records of `entries`, in order
LogOf(entries) ==
    Concat([i \in 1..Len(entries) |-> Format(entries[i].record) \o <<NL>>])

\* import_to_feed has returned and the menu has run nothing since
ImportReturned == pc = "idle" /\ trace # <<>>

RECURSIVE SumOf(_, _)
SumOf(rows, field) ==
    IF rows = <<>> THEN 0 ELSE Head(rows)[field] + SumOf(Tail(rows), field)

\* C1: after the add_record calls that returned, the log is the
\* concatenation, in arrival order, of the block of every added record
\* followed by a blank line; a call that failed leaves at most a part of its
\* block after them; and every step leaves the log it found as a prefix of
\* the log it leaves: nothing is removed or edited.
C1_LogIsAppendOnly ==
    /\ [](IsPrefix(LogOf(added), log))
    /\ [](pc # "crashed" => log = LogOf(added))
    /\ [][IsPrefix(log, log')]_vars

\* two records are in the log, the second appended after the first
C1_Witness == Len(added) >= 2 /\ log # <<>>

\* a block parse_records makes a record of: a known tag, at least three
\* lines, and for a PrivateAd a date the constructor takes
Accepted(block) ==
    /\ block[1] \in {TagNews, TagPrivateAd, TagWeatherReport}
    /\ Len(block) >= 3
    /\ block[1] = TagPrivateAd => ~PrivateAdRaises(block[2], block[3])

\* the record of an accepted block
RecordOf(block, clock) ==
    IF block[1] = TagNews THEN News(block[2], block[3], clock)
    ELSE IF block[1] = TagPrivateAd THEN PrivateAd(block[2], block[3], clock)
    ELSE WeatherReport(block[2], block[3], clock)

\* the records of a sequence of accepted blocks, in the blocks' order, the
\* i-th built at the instant of index clocks[i]
RecordsOf(blocks, clocks) ==
    [i \in 1..Len(blocks) |-> RecordOf(blocks[i], Instants[clocks[i]])]

\* the instants of `built` are in the clock's order
InClockOrder(clocks) == \A i \in 1..(Len(clocks) - 1) : clocks[i] <= clocks[i + 1]

\* a date written YYYY-MM-DD: four digits, two digits, two digits
InIsoForm(s) ==
    /\ Len(s) = 10
    /\ s[5] = "-" /\ s[8] = "-"
    /\ \A i \in {1, 2, 3, 4, 6, 7, 9, 10} : IsDigit(s[i])

\* a block the claim as stated keeps: an accepted one, a PrivateAd only with
\* a date in YYYY-MM-DD form
AcceptedInIsoForm(block) ==
    Accepted(block) /\ (block[1] = TagPrivateAd => InIsoForm(block[3]))

\* C2 (as amended): parse_records returns exactly the records of the blocks
\* with a known tag, at least three non-blank lines and, for a PrivateAd, a
\* date that strptime("%Y-%m-%d") takes (which includes one-digit months and
\* days), in the order of the blocks; the other blocks are left out and the
\* blocks after them are still parsed.
C2_ParseKeepsAcceptedBlocks ==
    pc = "parsed" =>
        /\ Len(records) = Len(SelectSeq(input_blocks, Accepted))
        /\ Len(built) = Len(records)
        /\ InClockOrder(built)
        /\ records = RecordsOf(SelectSeq(input_blocks, Accepted), built)

\* a file was parsed in which a record follows a malformed block
C2_Witness ==
    /\ pc = "parsed"
    /\ \E i, j \in 1..Len(input_blocks) :
          i < j /\ ~Accepted(input_blocks[i]) /\ Accepted(input_blocks[j])
    /\ records # <<>>

\* C2 (as stated): every PrivateAd block whose date is not in YYYY-MM-DD form
\* is left out of the result.
C2_AsStated ==
    pc = "parsed" =>
        /\ Len(records) = Len(SelectSeq(input_blocks, AcceptedInIsoForm))
        /\ records = RecordsOf(SelectSeq(input_blocks, AcceptedInIsoForm), built)

\* the events of an import that has added its first n records
RECURSIVE AddEvents(_)
AddEvents(n) ==
    IF n = 0 THEN <<>>
    ELSE AddEvents(n - 1) \o <<[op |-> "append", index |-> n], [op |-> "refresh", index |-> n]>>

\* C3: in an import that returned, every parsed record was appended in parse
\* order, each append followed by one refresh before the next append, and
\* the file was removed after the last refresh; while the loop runs the file
\* is still there.
C3_ImportOrder ==
    /\ pc = "import" => input_exists /\ trace = AddEvents(pos)
    /\ ImportReturned =>
          /\ pos = Len(records)
          /\ trace = AddEvents(Len(records)) \o <<[op |-> "remove", index |-> 0]>>
          /\ Len(added) >= Len(records)
          /\ \A i \in 1..Len(records) :
                added[Len(added) - Len(records) + i].record = records[i]
          /\ ~input_exists

\* an import of two records has returned
C3_Witness == ImportReturned /\ Len(records) = 2

\* C4: when a step of import_to_feed fails, the program ends with the error
\* and the log holds every record appended before the failure (after them,
\* at most a part of the block whose write failed): the ones the import had
\* added are the last ones of the log.
C4_NoRollback ==
    (pc = "crashed" /\ input_exists) =>
        /\ error # "none"
        /\ IsPrefix(LogOf(added), log)
        /\ Len(added) >= pos
        /\ \A i \in 1..pos :
              \E k \in 1..Len(added) : added[k].record = records[i]
        /\ IsPrefix(LogOf(SubSeq(added, 1, pos)), log)

\* an import failed after it had appended a record
C4_Witness == pc = "crashed" /\ input_exists /\ pos >= 1 /\ log # <<>>

\* C5: when add_record has returned, both statistics files hold exactly the
\* tables of the whole log: the header and the rows computed from scratch.
C5_StatisticsOfWholeLog ==
    (last = "add_record" /\ pc # "crashed") =>
        /\ word_csv = [header |-> WordHeader, rows |-> WordRows(log), torn |-> FALSE]
        /\ letter_csv = [header |-> LetterHeader, rows |-> LetterRows(log), torn |-> FALSE]

\* add_record has returned on a log that already held a record
C5_Witness == last = "add_record" /\ pc # "crashed" /\ Len(added) >= 2

\* C6: the rows of the word count file are in strictly ascending order of
\* word (so no word is there twice), no word is empty and every count is at
\* least 1.
C6_WordRowsSorted ==
    /\ \A i \in 1..(Len(word_csv.rows) - 1) :
          StrLess(word_csv.rows[i].word, word_csv.rows[i + 1].word)
    /\ \A i \in 1..Len(word_csv.rows) :
          word_csv.rows[i].word # <<>> /\ word_csv.rows[i].count >= 1

\* the file holds several words, one of them counted more than once
C6_Witness ==
    /\ Len(word_csv.rows) >= 2
    /\ \E i \in 1..Len(word_csv.rows) : word_csv.rows[i].count >= 2

\* C7: when add_record has returned (the log is not empty and the letter
\* count file is the one of that log), the percentages of the letter rows add
\* up to 100 within half a hundredth per row, the count_all values add up to
\* the number of letters of the log, and no row's count_uppercase is more
\* than its count_all.
C7_LetterRowsAddUp ==
    (last = "add_record" /\ pc # "crashed") =>
        /\ 2 * SumOf(letter_csv.rows, "percentage") <= 20000 + Len(letter_csv.rows)
        /\ 2 * SumOf(letter_csv.rows, "percentage") >= 20000 - Len(letter_csv.rows)
        /\ SumOf(letter_csv.rows, "count_all") = Len(SelectSeq(log, IsAlpha))
        /\ \A i \in 1..Len(letter_csv.rows) :
              letter_csv.rows[i].count_uppercase <= letter_csv.rows[i].count_all

\* C8: update_statistics run right after update_statistics leaves both
\* statistics files as the first run left them, and leaves the log alone.
C8_StatisticsIdempotent ==
    [][(last' = "update_statistics again" /\ pc' = "idle")
          => (word_csv' = word_csv /\ letter_csv' = letter_csv /\ log' = log)]_vars

\* update_statistics has run twice in a row on a log with a record
C8_Witness == last = "update_statistics again" /\ log # <<>> /\ word_csv.rows # <<>>

\* the whole days from the instant `from` to the midnight that starts the
\* date `to`, rounded toward minus infinity: the days between the two dates,
\* less one when `from` is past its own midnight
WholeDays(to, from) ==
    (ToOrdinal(to) - ToOrdinal(from))
        + (CHOOSE e \in {-1, 0} :
              /\ e * SecondsPerDay <= -SecondOfDay(from)
              /\ -SecondOfDay(from) < (e + 1) * SecondsPerDay)

\* the date `to` is in the past at the instant `from`
InThePast(to, from) ==
    \/ ToOrdinal(to) < ToOrdinal(from)
    \/ ToOrdinal(to) = ToOrdinal(from) /\ SecondOfDay(from) > 0

\* the block a record prints, a PrivateAd's days_left being the whole days
\* from its construction to its expiration date
BlockAsBuilt(entry) ==
    IF entry.record.kind # "PrivateAd" THEN Format(entry.record)
    ELSE FormatPrivateAd([entry.record EXCEPT !.days_left =
            WholeDays(entry.record.expiration_date, Instants[entry.built])])

\* C9: a PrivateAd's days_left is the whole days from its construction to
\* its expiration date, negative when that date has passed, and the block in
\* the log shows that number whenever the block was written.
C9_DaysLeftFixedAtConstruction ==
    /\ \A i \in 1..Len(added) :
          added[i].record.kind = "PrivateAd" =>
              /\ added[i].record.days_left
                    = WholeDays(added[i].record.expiration_date, Instants[added[i].built])
              /\ InThePast(added[i].record.expiration_date, Instants[added[i].built])
                    => added[i].record.days_left < 0
    /\ \A i \in 1..Len(records) :
          records[i].kind = "PrivateAd" =>
              records[i].days_left
                  = WholeDays(records[i].expiration_date, Instants[built[i]])
    /\ IsPrefix(Concat([i \in 1..Len(added) |-> BlockAsBuilt(added[i]) \o <<NL>>]), log)

\* a PrivateAd past its date is in the log and the clock has moved since it
\* was built
C9_Witness ==
    \E i \in 1..Len(added) :
        /\ added[i].record.kind = "PrivateAd"
        /\ added[i].record.days_left < 0
        /\ added[i].built < now

\* C10: an import that returned has removed its file, however many blocks it
\* skipped; with no record parsed it appended nothing and refreshed nothing.
C10_FileRemovedWhateverSkipped ==
    ImportReturned =>
        /\ ~input_exists
        /\ records = <<>> => trace = <<[op |-> "remove", index |-> 0]>>
        /\ Len(records) = Cardinality({i \in 1..Len(input_blocks) : Accepted(input_blocks[i])})

\* an import that skipped a block has returned
C10_Witness == ImportReturned /\ Len(input_blocks) > Len(records)

=============================================================================
